---- MODULE Spec2Model ----
(***************************************************************************)
(* Employee directory worker: the fetch handler of src/src/index.js over   *)
(* the D1 helper module src/src/db.js.  A request handler runs from one    *)
(* await to the next as one step; every statement the store executes is    *)
(* atomic, and handlers of different requests interleave between awaits.   *)
(***************************************************************************)
EXTENDS Integers, Sequences, FiniteSets, TLC

(***************************************************************************)
(* Bounds of the model.                                                    *)
(***************************************************************************)
\* the largest id the store assigns (inserts stop there)
MaxId == 3
\* the largest value CURRENT_TIMESTAMP takes
MaxClock == 1

(***************************************************************************)
(* JavaScript strings are sequences of one-character strings.  A property  *)
(* that is absent from a JSON object reads as Undefined.                    *)
(***************************************************************************)
Undefined == <<"undefined">>

WordChars ==
    { "a","b","c","d","e","f","g","h","i","j","k","l","m",
      "n","o","p","q","r","s","t","u","v","w","x","y","z",
      "A","B","C","D","E","F","G","H","I","J","K","L","M",
      "N","O","P","Q","R","S","T","U","V","W","X","Y","Z",
      "0","1","2","3","4","5","6","7","8","9","_" }

WhiteSpace == { " ", "\t", "\n", "\r" }

RECURSIVE TrimStart(_)
TrimStart(s) ==
    IF s # <<>> /\ Head(s) \in WhiteSpace THEN TrimStart(Tail(s)) ELSE s

RECURSIVE TrimEnd(_)
TrimEnd(s) ==
    IF s # <<>> /\ s[Len(s)] \in WhiteSpace
    THEN TrimEnd(SubSeq(s, 1, Len(s) - 1))
    ELSE s

\* String.prototype.trim
Trim(s) == TrimEnd(TrimStart(s))

\* x || "" followed by String(...): an absent or empty field yields ""
OrEmpty(x) == IF x = Undefined THEN <<>> ELSE x

\* a JavaScript truthiness test of a string-or-undefined field
Truthy(x) == x # Undefined /\ x # <<>>

\* /^\w{3,20}$/.test(s)
NircPattern(s) ==
    /\ Len(s) >= 3
    /\ Len(s) <= 20
    /\ \A i \in 1..Len(s) : s[i] \in WordChars

\* /^\S+@\S+\.\S+$/.test(s)
EmailPattern(s) ==
    /\ \A i \in 1..Len(s) : s[i] \notin WhiteSpace
    /\ \E i \in 2..Len(s) : \E j \in (i + 2)..(Len(s) - 1) :
          s[i] = "@" /\ s[j] = "."

MsgMissingBody == "Missing body"
MsgNirc == "Invalid NIRC (3-20 alphanumeric characters)"
MsgFullName == "Full name is required"
MsgEmail == "Invalid email address"

\* the early-return bug: stop at the first violated rule
validatePayloadFirstOnly(payload) ==
    IF payload.kind = "null" THEN << MsgMissingBody >>
    ELSE LET nirc == Trim(OrEmpty(payload.nirc))
             fullName == Trim(OrEmpty(payload.fullName))
             email == IF Truthy(payload.email) THEN Trim(payload.email) ELSE <<>>
         IN  IF ~NircPattern(nirc) THEN << MsgNirc >>
             ELSE IF fullName = <<>> THEN << MsgFullName >>
             ELSE IF email # <<>> /\ ~EmailPattern(email) THEN << MsgEmail >>
             ELSE <<>>

validatePayload(payload) ==
    IF payload.kind = "null" THEN << MsgMissingBody >>
    ELSE LET nirc == Trim(OrEmpty(payload.nirc))
             fullName == Trim(OrEmpty(payload.fullName))
             email == IF Truthy(payload.email) THEN Trim(payload.email) ELSE <<>>
         IN  (IF ~NircPattern(nirc) THEN << MsgNirc >> ELSE <<>>)
             \o (IF fullName = <<>> THEN << MsgFullName >> ELSE <<>>)
             \o (IF email # <<>> /\ ~EmailPattern(email) THEN << MsgEmail >> ELSE <<>>)

(***************************************************************************)
(* Error messages are sequences of fragments, so that a message built by   *)
(* concatenation keeps the cause it embeds.                                *)
(***************************************************************************)
BindingMsg == "D1 binding 'employee_db' not found in environment"
UniqueMsg == "UNIQUE constraint failed: employees.nirc"
\* the cause texts a failing store statement raises
FaultCauses == { "D1_ERROR: storage operation failed" }

\* the bug of testing for another store's duplicate-key text
MentionsDuplicateEntry(msg) == \E i \in 1..Len(msg) : msg[i] = "Duplicate entry"

\* /unique/i.test(msg) || /UNIQUE constraint failed/i.test(msg)
MentionsUnique(msg) == \E i \in 1..Len(msg) : msg[i] = UniqueMsg

\* contentType.includes("application/json"), on a header value given as fragments
IncludesJson(contentType) ==
    \E i \in 1..Len(contentType) : contentType[i] = "application/json"

(***************************************************************************)
(* Responses.  Every response has the same fields; the ones a response     *)
(* does not carry are empty.  Headers are a set of << name, value >> pairs *)
(* with one pair per name.                                                 *)
(***************************************************************************)
\* headers.set(name, value)
SetHeader(headers, name, value) ==
    { p \in headers : p[1] # name } \cup { << name, value >> }

\* the policy withStandardHeaders sets
ContentSecurityPolicy ==
    "default-src 'self' https://unpkg.com https://cdn.tailwindcss.com https://cdnjs.cloudflare.com; script-src 'self' 'unsafe-inline' https://unpkg.com https://cdnjs.cloudflare.com https://cdn.tailwindcss.com; style-src 'self' 'unsafe-inline' https://cdn.tailwindcss.com https://fonts.googleapis.com; font-src 'self' https://fonts.gstatic.com data:; connect-src 'self'; img-src 'self' data: https://cdn.jsdelivr.net https://cdnjs.cloudflare.com; frame-ancestors 'self'; base-uri 'self';"

\* the bug of leaving the CORS headers to the preflight alone
withSecurityHeadersOnly(res) ==
    [ res EXCEPT !.headers =
        SetHeader(SetHeader(SetHeader(@,
            "Content-Security-Policy", ContentSecurityPolicy),
            "X-Content-Type-Options", "nosniff"),
            "Referrer-Policy", "no-referrer") ]

\* the response with the CORS and security headers set
withStandardHeaders(res) ==
    [ res EXCEPT !.headers =
        SetHeader(SetHeader(SetHeader(SetHeader(SetHeader(SetHeader(@,
            "Content-Security-Policy", ContentSecurityPolicy),
            "X-Content-Type-Options", "nosniff"),
            "Referrer-Policy", "no-referrer"),
            "Access-Control-Allow-Origin", "*"),
            "Access-Control-Allow-Methods", "GET,HEAD,POST,DELETE,OPTIONS"),
            "Access-Control-Allow-Headers", "Content-Type") ]

NoResponse ==
    [ status |-> 0, kind |-> "none", error |-> "", details |-> <<>>,
      errors |-> <<>>, success |-> FALSE, deletedCount |-> 0,
      missing |-> <<>>, rows |-> <<>>, headers |-> {} ]

\* new Response(JSON.stringify(...), { status, headers: { "Content-Type": ... } })
JsonResponse(status, kind) ==
    [ NoResponse EXCEPT !.status = status, !.kind = kind,
                        !.headers = { << "Content-Type", "application/json" >> } ]

\* { error, details } with a status
ErrorResponse(status, error, details) ==
    withStandardHeaders(
        [ JsonResponse(status, "error") EXCEPT !.error = error, !.details = details ])

Preflight ==
    withStandardHeaders([ NoResponse EXCEPT !.status = 204, !.kind = "empty" ])
HtmlPage ==
    withStandardHeaders(
        [ NoResponse EXCEPT !.status = 200, !.kind = "html",
                            !.headers = { << "Content-Type", "text/html; charset=utf-8" >> } ])
NotFound == ErrorResponse(404, "Not found", <<>>)
UnsupportedMedia == ErrorResponse(415, "Content-Type must be application/json", <<>>)
\* the bug of a catch that answers without the error it caught
SchemaErrorUnnamed(cause) == ErrorResponse(500, "Internal Server Error", <<>>)
SchemaError(cause) == ErrorResponse(500, "D1 database error: ", cause)
InternalError(cause) == ErrorResponse(500, "Internal Server Error", cause)
InsertFailed(msg) == ErrorResponse(500, "Database insert failed", msg)
DeleteFailed(msg) == ErrorResponse(500, "Database delete failed", msg)
BadIds == ErrorResponse(400, "ids must be a non-empty array of employee IDs", <<>>)
AlreadyExists ==
    withStandardHeaders(
        [ JsonResponse(409, "message") EXCEPT
            !.error = "Employee with that NIRC already exists" ])
ValidationErrors(errors) ==
    withStandardHeaders([ JsonResponse(400, "errors") EXCEPT !.errors = errors ])
Created(row) ==
    withStandardHeaders([ JsonResponse(201, "row") EXCEPT !.rows = << row >> ])
Listing(rows) ==
    withStandardHeaders([ JsonResponse(200, "rows") EXCEPT !.rows = rows ])

\* the router's answer to what deleteEmployees returned
DeleteResult(result) ==
    withStandardHeaders(
        [ JsonResponse(IF result.success THEN 200 ELSE 400, "result") EXCEPT
            !.success = result.success,
            !.deletedCount = result.deletedCount,
            !.errors = result.errors,
            !.missing = result.missing ])

\* an exception that leaves fetch: no response of the handler
Uncaught(msg) == [ NoResponse EXCEPT !.kind = "uncaught", !.details = msg ]

\* the bug of a dispatch without the outermost try
TryOfWithoutOutermost(site) ==
    CASE site = "ensureSchema" -> "ensureSchema"
      [] site \in { "addEmployee", "payload.nirc.trim" } -> "addEmployee"
      [] site = "deleteEmployees" -> "deleteEmployees"
      [] OTHER -> "none"

\* the innermost try statement of fetch around a call or an expression
TryOf(site) ==
    CASE site = "ensureSchema" -> "ensureSchema"
      [] site \in { "addEmployee", "payload.nirc.trim" } -> "addEmployee"
      [] site = "deleteEmployees" -> "deleteEmployees"
      [] site \in { "listEmployees", "request.json", "payload.ids" } -> "outermost"
      [] OTHER -> "none"

\* what fetch makes of an exception with this message thrown at a site
Caught(site, msg) ==
    CASE TryOf(site) = "ensureSchema" -> SchemaError(msg)
      [] TryOf(site) = "addEmployee" ->
           IF MentionsUnique(msg) THEN AlreadyExists ELSE InsertFailed(msg)
      [] TryOf(site) = "deleteEmployees" -> DeleteFailed(msg)
      [] TryOf(site) = "outermost" -> InternalError(msg)
      [] OTHER -> Uncaught(msg)

(***************************************************************************)
(* Requests.  A JSON body is malformed, the value null, or an object whose *)
(* fields are strings or absent, but for nirc, which may be a number (nirc  *)
(* then holds String(nirc)); ids is an array of entries or no array.       *)
(* An entry is a number, a numeric string (Number(entry) = v) or a string  *)
(* that is no number.                                                      *)
(***************************************************************************)
Num(v) == [ t |-> "num", v |-> v ]
NumStr(v) == [ t |-> "str", v |-> v ]
NotANumber == [ t |-> "bad", v |-> 0 ]

NoIds == [ arr |-> FALSE, items |-> <<>> ]
NullBody ==
    [ kind |-> "null", nirc |-> Undefined, nircType |-> "string",
      fullName |-> Undefined, position |-> Undefined, email |-> Undefined,
      ids |-> NoIds ]
Malformed == [ NullBody EXCEPT !.kind = "malformed" ]
EmptyObject == [ NullBody EXCEPT !.kind = "object" ]
Employee(nirc, fullName, position, email) ==
    [ EmptyObject EXCEPT !.nirc = nirc, !.fullName = fullName,
                         !.position = position, !.email = email ]
Ids(items) == [ EmptyObject EXCEPT !.ids = [ arr |-> TRUE, items |-> items ] ]

Json == << "application/json" >>
JsonUtf8 == << "application/json", "; charset=utf-8" >>
TextPlain == << "text/plain" >>
NoContentType == <<>>

Request(method, path, contentType, body) ==
    [ method |-> method, path |-> path, contentType |-> contentType, body |-> body ]
NoRequest == Request("", "", <<>>, NullBody)

Api == "/api/employees"

\* sample field values
S12 == << "S", "1", "2" >>
S12Padded == << " ", "S", "1", "2", " " >>
T34 == << "T", "3", "4" >>
Al == << "A", "l" >>
BoPadded == << " ", "B", "o", " " >>
XPadded == << " ", "x", " " >>
MailPadded == << " ", "a", "@", "b", ".", "c" >>
BadMail == << "b", "a", "d" >>
\* { "nirc": 123, "fullName": "Al" }
NumericNirc ==
    [ Employee(<< "1", "2", "3" >>, Al, Undefined, Undefined) EXCEPT !.nircType = "number" ]

ValidBodies ==
    { Employee(S12, Al, Undefined, Undefined),
      Employee(S12Padded, BoPadded, XPadded, MailPadded),
      Employee(T34, Al, Undefined, Undefined) }
InvalidBodies ==
    { Employee(<< "a" >>, <<>>, Undefined, Undefined),
      Employee(T34, Al, Undefined, BadMail),
      NullBody }

IdValues == 1..MaxId
IdLists ==
    { << Num(a) >> : a \in IdValues }
    \cup { << Num(a), Num(b) >> : a \in IdValues, b \in IdValues }

PostRequests ==
    { Request("POST", Api, Json, b) : b \in ValidBodies \cup InvalidBodies \cup { Malformed } }
    \cup { Request("POST", Api, JsonUtf8, Employee(T34, Al, Undefined, Undefined)) }
    \cup { Request("POST", Api, TextPlain, b) :
             b \in { Malformed, Employee(S12, Al, Undefined, Undefined) } }
    \cup { Request("POST", Api, NoContentType, Employee(S12, Al, Undefined, Undefined)),
           Request("POST", Api, Json, NumericNirc) }

DeleteRequests ==
    { Request("DELETE", Api, Json, Ids(l)) : l \in IdLists }
    \cup { Request("DELETE", Api, Json, b) :
             b \in { Ids(<<>>), Ids(<< NumStr(1) >>), Ids(<< Num(1), NotANumber >>),
                     EmptyObject, NullBody, Malformed } }
    \cup { Request("DELETE", Api, TextPlain, b) : b \in { Malformed, Ids(<< Num(1) >>) } }
    \cup { Request("DELETE", Api, NoContentType, Ids(<< Num(1) >>)) }

OtherRequests ==
    { Request("GET", "/", NoContentType, NullBody),
      Request("GET", Api, NoContentType, NullBody),
      Request("OPTIONS", Api, NoContentType, NullBody),
      Request("PUT", Api, Json, NullBody),
      Request("GET", "/favicon.ico", NoContentType, NullBody) }

Requests == PostRequests \cup DeleteRequests \cup OtherRequests

\* payloads that exercise every rule of validatePayload
Rep(c, n) == [ i \in 1..n |-> c ]
NircSamples ==
    { Undefined, <<>>, << "a" >>, << "a", "b" >>, << "a", "_", "1" >>,
      Rep("Z", 20), Rep("Z", 21), << " ", "a", "b", "c", "\t" >>,
      << " ", "a", "b", " " >>, << "a", "b", "-", "c" >>, << "a", " ", "c", "d" >>,
      << " ", " " >> }
NameSamples == { Undefined, <<>>, << " " >>, Al, BoPadded }
EmailSamples ==
    { Undefined, <<>>, << " " >>, << "a", "@", "b", ".", "c" >>, MailPadded, BadMail,
      << "a", "@", "b" >>, << "@", "b", ".", "c" >>, << "a", "@", ".", "c" >>,
      << "a", "@", "b", "." >>, << "a", " ", "b", "@", "c", ".", "d" >>,
      << "a", "@", "b", "@", "c", ".", "d" >> }
ValidateRequests ==
    { Request("POST", Api, Json, Employee(n, f, Undefined, e)) :
        n \in NircSamples, f \in NameSamples, e \in EmailSamples }
    \cup { Request("POST", Api, Json, NullBody) }

\* the writing requests that handlers serve concurrently
ConcurrentRequests ==
    { Request("POST", Api, Json, b) :
        b \in ValidBodies \cup { Employee(<< "a" >>, <<>>, Undefined, Undefined) } }
    \cup { Request("DELETE", Api, Json, Ids(<< Num(a) >>)) : a \in IdValues }
    \cup { Request("DELETE", Api, Json, Ids(<< Num(p[1]), Num(p[2]) >>)) :
             p \in { p \in IdValues \X IdValues : p[1] <= p[2] } }

(***************************************************************************)
(* State.                                                                  *)
(***************************************************************************)
Handlers == { "h1", "h2" }

VARIABLES
    table,      \* the rows of the employees table
    seq,        \* the largest id AUTOINCREMENT has assigned
    clock,      \* CURRENT_TIMESTAMP
    schema,     \* whether the employees table was created
    binding,    \* whether env.employee_db is configured
    pc,         \* where each handler stands: the store call it awaits
    req,        \* each handler's request
    loc,        \* each handler's local variables
    resp,       \* the response each handler returned
    calls       \* the functions a handler called and the statements the store ran for it

vars == << table, seq, clock, schema, binding, pc, req, loc, resp, calls >>

NoData == [ nirc |-> <<>>, fullName |-> <<>>, position |-> <<>>, email |-> <<>> ]
\* inserted is the id the store gave the row of this request's INSERT, which
\* the handler knows only as far as maybeId reports it
NoLocals == [ data |-> NoData, ids |-> <<>>, maybeId |-> 0, inserted |-> 0 ]

Init ==
    /\ table = {}
    /\ seq = 0
    /\ clock = 0
    /\ schema = FALSE
    /\ binding \in BOOLEAN
    /\ pc = [ h \in Handlers |-> "idle" ]
    /\ req = [ h \in Handlers |-> NoRequest ]
    /\ loc = [ h \in Handlers |-> NoLocals ]
    /\ resp = [ h \in Handlers |-> NoResponse ]
    /\ calls = [ h \in Handlers |-> {} ]

(***************************************************************************)
(* The router up to the first store call after schema initialization.      *)
(* The outcome is a response, or the store call the handler awaits next.   *)
(***************************************************************************)
Respond(response, called) ==
    [ pc |-> "done", resp |-> response, loc |-> NoLocals, calls |-> called ]
Await(at, locals, called) ==
    [ pc |-> at, resp |-> NoResponse, loc |-> locals, calls |-> called ]

\* the bug of handing the fields over as they came
UntrimmedData(payload) ==
    [ nirc |-> payload.nirc,
      fullName |-> payload.fullName,
      position |-> IF Truthy(payload.position) THEN payload.position ELSE <<>>,
      email |-> IF Truthy(payload.email) THEN payload.email ELSE <<>> ]

\* the object the router hands to addEmployee
TrimmedData(payload) ==
    [ nirc |-> Trim(payload.nirc),
      fullName |-> Trim(payload.fullName),
      position |-> IF Truthy(payload.position) THEN Trim(payload.position) ELSE <<>>,
      email |-> IF Truthy(payload.email) THEN Trim(payload.email) ELSE <<>> ]

\* the bug of calling the store before looking at the validation errors
PostEmployeeUnvalidated(q) ==
    IF ~IncludesJson(q.contentType) THEN Respond(UnsupportedMedia, {})
    ELSE IF q.body.kind = "malformed"
         THEN Respond(Caught("request.json", << "Unexpected token in JSON" >>), { "json" })
    ELSE IF q.body.kind = "null"
         THEN Respond(ValidationErrors(validatePayload(q.body)), { "json" })
    ELSE IF q.body.nircType # "string"
         THEN Respond(Caught("payload.nirc.trim",
                             << "payload.nirc.trim is not a function" >>), { "json" })
    ELSE Await("insert", [ NoLocals EXCEPT !.data = TrimmedData(q.body) ],
               { "json", "addEmployee" })

\* the bug of parsing the body before looking at the Content-Type
PostEmployeeParseFirst(q) ==
    IF q.body.kind = "malformed"
    THEN Respond(Caught("request.json", << "Unexpected token in JSON" >>), { "json" })
    ELSE IF ~IncludesJson(q.contentType) THEN Respond(UnsupportedMedia, { "json" })
    ELSE IF validatePayload(q.body) # <<>>
         THEN Respond(ValidationErrors(validatePayload(q.body)), { "json" })
    ELSE IF q.body.nircType # "string"
         THEN Respond(Caught("payload.nirc.trim",
                             << "payload.nirc.trim is not a function" >>), { "json" })
    ELSE Await("insert", [ NoLocals EXCEPT !.data = TrimmedData(q.body) ],
               { "json", "addEmployee" })

\* POST /api/employees
PostEmployee(q) ==
    IF ~IncludesJson(q.contentType) THEN Respond(UnsupportedMedia, {})
    ELSE IF q.body.kind = "malformed"
         THEN Respond(Caught("request.json", << "Unexpected token in JSON" >>), { "json" })
    ELSE IF validatePayload(q.body) # <<>>
         THEN Respond(ValidationErrors(validatePayload(q.body)), { "json" })
    ELSE IF q.body.nircType # "string"
         THEN Respond(Caught("payload.nirc.trim",
                             << "payload.nirc.trim is not a function" >>), { "json" })
    ELSE Await("insert", [ NoLocals EXCEPT !.data = TrimmedData(q.body) ],
               { "json", "addEmployee" })

\* typeof id !== 'number' && (typeof id !== 'string' || isNaN(Number(id)))
InvalidId(e) == e.t \notin { "num", "str" }

\* employeeIds.map(id => Number(id))
ToNumbers(items) == [ i \in 1..Len(items) |-> items[i].v ]

\* deleteEmployees up to its first store call
DeleteEmployeesEntry(items) ==
    IF Len(items) = 0
    THEN Respond(Caught("deleteEmployees", << "No employee IDs provided for deletion" >>),
                 { "json", "deleteEmployees" })
    ELSE IF SelectSeq(items, InvalidId) # <<>>
    THEN Respond(Caught("deleteEmployees",
                        << "Invalid employee IDs: ", "All IDs must be numbers." >>),
                 { "json", "deleteEmployees" })
    ELSE Await("check", [ NoLocals EXCEPT !.ids = ToNumbers(items) ],
               { "json", "deleteEmployees" })

\* DELETE /api/employees
DeleteEmployeesRoute(q) ==
    IF ~IncludesJson(q.contentType) THEN Respond(UnsupportedMedia, {})
    ELSE IF q.body.kind = "malformed"
         THEN Respond(Caught("request.json", << "Unexpected token in JSON" >>), { "json" })
    ELSE IF q.body.kind = "null"
         THEN Respond(Caught("payload.ids",
                             << "Cannot read properties of null (reading 'ids')" >>),
                      { "json" })
    ELSE IF ~q.body.ids.arr \/ Len(q.body.ids.items) = 0
         THEN Respond(BadIds, { "json" })
    ELSE DeleteEmployeesEntry(q.body.ids.items)

\* the dispatch of fetch after ensureSchema
Route(q) ==
    IF q.path = "/" /\ q.method = "GET" THEN Respond(HtmlPage, {})
    ELSE IF q.path = Api /\ q.method = "GET" THEN Await("list", NoLocals, { "listEmployees" })
    ELSE IF q.path = Api /\ q.method = "POST" THEN PostEmployee(q)
    ELSE IF q.path = Api /\ q.method = "DELETE" THEN DeleteEmployeesRoute(q)
    ELSE Respond(NotFound, {})

(***************************************************************************)
(* The store: the statements of db.js as D1 executes them.                 *)
(***************************************************************************)
IdsOf(T) == { row.id : row \in T }
NircsOf(T) == { row.nirc : row \in T }
Range(s) == { s[i] : i \in 1..Len(s) }

\* the bug of a key without AUTOINCREMENT: one more than the largest id in the table
NextIdOfRowid(T, largest) ==
    IF T = {} THEN 1
    ELSE (CHOOSE m \in IdsOf(T) : \A id \in IdsOf(T) : id <= m) + 1

\* INTEGER PRIMARY KEY AUTOINCREMENT: one more than the largest id ever assigned
NextId(T, largest) == largest + 1

\* the row INSERT adds: AUTOINCREMENT id, DEFAULT CURRENT_TIMESTAMP
NewRow(data, id, now) ==
    [ id |-> id, nirc |-> data.nirc, full_name |-> data.fullName,
      position |-> data.position, email |-> data.email, created_at |-> now ]

\* the bug of ORDER BY created_at ASC
OrderingsAscending(T) ==
    { s \in [ 1..Cardinality(T) -> T ] :
        /\ \A i, j \in 1..Cardinality(T) : i # j => s[i] # s[j]
        /\ \A i, j \in 1..Cardinality(T) : i < j => s[i].created_at <= s[j].created_at }

\* the results of SELECT ... ORDER BY created_at DESC: rows of equal created_at
\* come in any order
Orderings(T) ==
    { s \in [ 1..Cardinality(T) -> T ] :
        /\ \A i, j \in 1..Cardinality(T) : i # j => s[i] # s[j]
        /\ \A i, j \in 1..Cardinality(T) : i < j => s[i].created_at >= s[j].created_at }

\* the names a scope of deleteEmployees declares
DeclaredInDeleteEmployees ==
    { "env", "employeeIds", "invalidIds", "checkSQL", "checkResult", "foundIds",
      "missingIds", "deleteSQL", "result", "err" }

\* an assignment to an identifier that is declared nowhere raises ReferenceError
\* in module (strict) code
AssignmentThrows(name) == name \notin DeclaredInDeleteEmployees

\* the bug of comparing the number of rows found with the number of ids asked
MissingIdsByCount(ids, found) ==
    IF Cardinality(found) # Len(ids) THEN ids ELSE SelectSeq(ids, LAMBDA id : id \notin found)

\* the bug of reporting every requested id once one of them is missing
MissingIdsAllRequested(ids, found) ==
    IF \E i \in 1..Len(ids) : ids[i] \notin found THEN ids ELSE <<>>

\* missingIds = employeeIds.filter(id => !foundIds.has(id))
MissingIds(ids, found) == SelectSeq(ids, LAMBDA id : id \notin found)

Finish(h, response, called) ==
    /\ pc' = [ pc EXCEPT ![h] = "done" ]
    /\ resp' = [ resp EXCEPT ![h] = response ]
    /\ loc' = [ loc EXCEPT ![h] = NoLocals ]
    /\ calls' = [ calls EXCEPT ![h] = @ \cup called ]

Goto(h, at, locals, called) ==
    /\ pc' = [ pc EXCEPT ![h] = at ]
    /\ loc' = [ loc EXCEPT ![h] = locals ]
    /\ calls' = [ calls EXCEPT ![h] = @ \cup called ]
    /\ UNCHANGED resp

(***************************************************************************)
(* The handler, one action per await.                                      *)
(***************************************************************************)
\* the bug of answering every method the API does not serve at once
IsPreflightOrUnserved(q) == q.method \notin { "GET", "POST", "DELETE" }

\* request.method === "OPTIONS"
IsPreflight(q) == q.method = "OPTIONS"

\* fetch is entered: the preflight is answered at once, any other request
\* calls ensureSchema
Receive(h, q) ==
    /\ pc[h] = "idle"
    /\ req' = [ req EXCEPT ![h] = q ]
    /\ IF IsPreflight(q)
       THEN Finish(h, Preflight, {})
       ELSE Goto(h, "ensure", NoLocals, { "ensureSchema" })
    /\ UNCHANGED << table, seq, clock, schema, binding >>

\* ensureSchema, and the router up to the next store call
EnsureSchema(h) ==
    /\ pc[h] = "ensure"
    /\ \/ /\ ~binding
          /\ Finish(h, Caught("ensureSchema", << BindingMsg >>), {})
          /\ UNCHANGED schema
       \/ /\ binding
          /\ \E cause \in FaultCauses : Finish(h, Caught("ensureSchema", << cause >>), {})
          /\ UNCHANGED schema
       \/ /\ binding
          /\ schema' = TRUE
          /\ LET o == Route(req[h])
             IN  IF o.pc = "done"
                 THEN Finish(h, o.resp, { "CREATE TABLE" } \cup o.calls)
                 ELSE Goto(h, o.pc, o.loc, { "CREATE TABLE" } \cup o.calls)
    /\ UNCHANGED << table, seq, clock, binding, req >>

\* listEmployees
List(h) ==
    /\ pc[h] = "list"
    /\ \/ \E cause \in FaultCauses : Finish(h, Caught("listEmployees", << cause >>), {})
       \/ \E rows \in Orderings(table) : Finish(h, Listing(rows), { "SELECT ALL" })
    /\ UNCHANGED << table, seq, clock, schema, binding, req >>

\* addEmployee: the INSERT
Insert(h) ==
    /\ pc[h] = "insert"
    /\ \/ /\ \E cause \in FaultCauses :
               Finish(h, Caught("addEmployee", << cause >>), {})
          /\ UNCHANGED << table, seq >>
       \/ /\ loc[h].data.nirc \in NircsOf(table)
          /\ Finish(h, Caught("addEmployee", << UniqueMsg >>), {})
          /\ UNCHANGED << table, seq >>
       \/ /\ loc[h].data.nirc \notin NircsOf(table)
          /\ seq < MaxId
          /\ table' = table \cup { NewRow(loc[h].data, NextId(table, seq), clock) }
          /\ seq' = NextId(table, seq)
          /\ \/ Goto(h, "selectById",
                     [ loc[h] EXCEPT !.maybeId = NextId(table, seq),
                                     !.inserted = NextId(table, seq) ], { "INSERT" })
             \/ Goto(h, "selectByNirc",
                     [ loc[h] EXCEPT !.inserted = NextId(table, seq) ], { "INSERT" })
    /\ UNCHANGED << clock, schema, binding, req >>

\* addEmployee: SELECT ... WHERE id = ?
SelectById(h) ==
    /\ pc[h] = "selectById"
    /\ \/ \E cause \in FaultCauses : Goto(h, "selectByNirc", loc[h], {})
       \/ LET results == { row \in table : row.id = loc[h].maybeId }
          IN  IF results # {}
              THEN Finish(h, Created(CHOOSE row \in results : TRUE), { "SELECT BY ID" })
              ELSE Goto(h, "selectByNirc", loc[h], { "SELECT BY ID" })
    /\ UNCHANGED << table, seq, clock, schema, binding, req >>

\* addEmployee: the fallback SELECT ... WHERE nirc = ?
SelectByNirc(h) ==
    /\ pc[h] = "selectByNirc"
    /\ \/ \E cause \in FaultCauses :
            Finish(h, Caught("addEmployee",
                             << "Failed to retrieve inserted employee: ", cause >>), {})
       \/ LET results == { row \in table : row.nirc = loc[h].data.nirc }
          IN  IF results # {}
              THEN Finish(h, Created(CHOOSE row \in results : TRUE), { "SELECT BY NIRC" })
              ELSE Finish(h, Caught("addEmployee",
                          << "Inserted employee could not be retrieved from database." >>),
                          { "SELECT BY NIRC" })
    /\ UNCHANGED << table, seq, clock, schema, binding, req >>

\* what deleteEmployees returns when ids are missing
NotFoundResult(missing) ==
    [ success |-> FALSE, deletedCount |-> 0,
      errors |-> << "Employees not found: " >>, missing |-> missing ]

\* what deleteEmployees returns after the DELETE
DeletedResult(changes) ==
    [ success |-> TRUE, deletedCount |-> changes, errors |-> <<>>, missing |-> <<>> ]

\* deleteEmployees: SELECT id ... WHERE id IN (...), the existence check
Check(h) ==
    /\ pc[h] = "check"
    /\ \/ \E cause \in FaultCauses :
            Finish(h, Caught("deleteEmployees", << "Failed to delete employees: ", cause >>), {})
       \/ LET foundIds == { id \in IdsOf(table) : id \in Range(loc[h].ids) }
              missingIds == MissingIds(loc[h].ids, foundIds)
          IN  IF Len(missingIds) > 0
              THEN Finish(h, DeleteResult(NotFoundResult(missingIds)), { "SELECT IN" })
              ELSE Goto(h, "delete", loc[h], { "SELECT IN" })
    /\ UNCHANGED << table, seq, clock, schema, binding, req >>

\* the table after DELETE ... WHERE id IN (...)
Deleted(T, ids) == { row \in T : row.id \notin Range(ids) }

\* what the router answers once the DELETE statement ran: result.changes is the
\* number of rows removed, or absent from the statement's result
DeleteAnswers(T, ids) ==
    { IF AssignmentThrows("deletedCount")
      THEN Caught("deleteEmployees",
                  << "Failed to delete employees: ",
                     "Failed to delete employees: ",
                     "deletedCount is not defined" >>)
      ELSE DeleteResult(DeletedResult(changes)) :
        changes \in { Cardinality(T) - Cardinality(Deleted(T, ids)), 0 } }

\* deleteEmployees: DELETE ... WHERE id IN (...), and the lines after it
Delete(h) ==
    /\ pc[h] = "delete"
    /\ \/ /\ \E cause \in FaultCauses :
               Finish(h, Caught("deleteEmployees",
                              << "Failed to delete employees: ",
                                 "Failed to delete employees: ", cause >>), {})
          /\ UNCHANGED table
       \/ /\ table' = Deleted(table, loc[h].ids)
          /\ \E response \in DeleteAnswers(table, loc[h].ids) :
               Finish(h, response, { "DELETE" })
    /\ UNCHANGED << seq, clock, schema, binding, req >>

\* the response was sent; the handler takes the next request
Recycle(h) ==
    /\ pc[h] = "done"
    /\ pc' = [ pc EXCEPT ![h] = "idle" ]
    /\ req' = [ req EXCEPT ![h] = NoRequest ]
    /\ resp' = [ resp EXCEPT ![h] = NoResponse ]
    /\ calls' = [ calls EXCEPT ![h] = {} ]
    /\ UNCHANGED << table, seq, clock, schema, binding, loc >>

\* time passes
Tick ==
    /\ clock < MaxClock
    /\ clock' = clock + 1
    /\ UNCHANGED << table, seq, schema, binding, pc, req, loc, resp, calls >>

\* the steps of a request that writes: create and delete
WriteStep(h) ==
    \/ EnsureSchema(h)
    \/ Insert(h)
    \/ SelectById(h)
    \/ SelectByNirc(h)
    \/ Check(h)
    \/ Delete(h)
    \/ Recycle(h)

\* handlers of concurrent create and delete requests, interleaved at their awaits
Next ==
    \E h \in Handlers :
        \/ \E q \in ConcurrentRequests : Receive(h, q)
        \/ WriteStep(h)

Spec == Init /\ [][Next]_vars

\* one request at a time, over every request of the model, while time passes
NextSeq ==
    \/ Tick
    \/ \E q \in Requests : Receive("h1", q)
    \/ List("h1")
    \/ WriteStep("h1")

SpecSeq == Init /\ [][NextSeq]_vars

\* one request at a time, where the runtime resumes the handler whenever the
\* store call it awaits has settled
HandlerStep(h) == List(h) \/ WriteStep(h)

SpecLive == Init /\ [][NextSeq]_vars /\ WF_vars(HandlerStep("h1"))

\* handlers of concurrent create requests only
NextCreate ==
    \E h \in Handlers :
        \/ \E q \in { c \in ConcurrentRequests : c.method = "POST" } : Receive(h, q)
        \/ EnsureSchema(h)
        \/ Insert(h)
        \/ SelectById(h)
        \/ SelectByNirc(h)
        \/ Recycle(h)

SpecCreate == Init /\ [][NextCreate]_vars

\* one create request, over the payloads that exercise validatePayload, up to
\* the router's answer or its call of addEmployee
NextValidate ==
    \/ \E q \in ValidateRequests : Receive("h1", q)
    \/ EnsureSchema("h1")

SpecValidate == Init /\ [][NextValidate]_vars

(***************************************************************************)
(* Vocabulary of the properties.                                           *)
(***************************************************************************)
IsCreate(q) == q.method = "POST" /\ q.path = Api
IsDelete(q) == q.method = "DELETE" /\ q.path = Api
\* the handler takes a step
Moves(h) == pc'[h] # pc[h]
\* the ids a DELETE request asks to remove
Requested(h) == Range(ToNumbers(req[h].body.ids.items))
\* a message that embeds the cause of a failed store statement
StorageFailure(msg) == \E i \in 1..Len(msg) : msg[i] \in FaultCauses

(***************************************************************************)
(* C1: when every requested id exists, so that the DELETE statement runs,  *)
(* the request is answered 200 with success = true and deletedCount equal  *)
(* to the number of rows removed, and none of the requested ids is left in *)
(* the table.                                                              *)
(***************************************************************************)
C1_DeleteExistingSucceeds ==
    \A h \in Handlers :
        (pc[h] = "done" /\ IsDelete(req[h]) /\ "DELETE" \in calls[h])
        => /\ resp[h].status = 200
           /\ resp[h].success
           /\ resp[h].deletedCount = Cardinality(Requested(h))
           /\ Requested(h) \cap IdsOf(table) = {}

C3_AllOrNothing ==
    [][ \A h \in Handlers :
          (Moves(h) /\ IsDelete(req[h]) /\ table' # table)
          => /\ pc'[h] = "done"
             /\ resp'[h].success
             /\ Requested(h) \cap IdsOf(table') = {}
      ]_vars

(***************************************************************************)
(* C4: the existence check and the DELETE are one atomic scope: when the   *)
(* DELETE of a request runs, every requested id is still in the table, so  *)
(* the request removes all of them itself, and a reported success counts   *)
(* the distinct requested ids.                                             *)
(***************************************************************************)
C4_CheckAndDeleteAtomic ==
    [][ \A h \in Handlers :
          (pc[h] = "delete" /\ "DELETE" \in calls'[h])
          => /\ Range(loc[h].ids) \subseteq IdsOf(table)
             /\ resp'[h].success
                => resp'[h].deletedCount = Cardinality(Range(loc[h].ids))
      ]_vars

(***************************************************************************)
(* C5: while only create requests run, whatever their interleaving, the    *)
(* table never holds two rows with the same nirc; of two requests for one  *)
(* nirc that are both answered, at most one is answered 201; an INSERT     *)
(* that finds its nirc in the table changes nothing and is answered 409    *)
(* (or 500 when the statement itself failed); and after a 201 the table    *)
(* holds exactly one row with that nirc.                                   *)
(***************************************************************************)
WithNirc(T, nirc) == { row \in T : row.nirc = nirc }
\* the nirc a create request asks for
AskedNirc(q) == Trim(OrEmpty(q.body.nirc))

C5_DuplicateNircRejected ==
    [][ /\ \A r1, r2 \in table' : r1.nirc = r2.nirc => r1 = r2
        /\ \A h \in Handlers :
             (pc'[h] = "done" /\ IsCreate(req'[h]) /\ resp'[h].status = 201)
             => Cardinality(WithNirc(table', AskedNirc(req'[h]))) = 1
        /\ \A h, g \in Handlers :
             (h # g /\ pc'[h] = "done" /\ pc'[g] = "done"
                /\ IsCreate(req'[h]) /\ IsCreate(req'[g])
                /\ AskedNirc(req'[h]) = AskedNirc(req'[g]))
             => ~(resp'[h].status = 201 /\ resp'[g].status = 201)
        /\ \A h \in Handlers :
             (Moves(h) /\ pc[h] = "insert" /\ loc[h].data.nirc \in NircsOf(table))
             => /\ table' = table
                /\ pc'[h] = "done"
                /\ \/ resp'[h] = AlreadyExists
                   \/ resp'[h].status = 500 /\ StorageFailure(resp'[h].details)
      ]_vars

\* two requests for the same nirc: one created it, the other was told it exists
C5_Witness ==
    \E h, g \in Handlers :
        /\ h # g /\ pc[h] = "done" /\ pc[g] = "done"
        /\ IsCreate(req[h]) /\ IsCreate(req[g])
        /\ AskedNirc(req[h]) = AskedNirc(req[g])
        /\ resp[h].status = 201
        /\ resp[g] = AlreadyExists
        /\ Cardinality(WithNirc(table, AskedNirc(req[h]))) = 1

(***************************************************************************)
(* C6: a create with a valid payload reaches the INSERT; the INSERT of a   *)
(* nirc that is not in the table adds exactly one row, whose id is new and *)
(* whose created_at is the store's time; no other step of the request      *)
(* changes the table; the request is answered 201 with that row, whose     *)
(* nirc, full_name, position and email are the trimmed input (position and *)
(* email empty when absent); and it is answered otherwise only when a      *)
(* store statement failed.                                                 *)
(***************************************************************************)
\* the field of the stored row that an input field yields
Given(field) == IF field = Undefined THEN <<>> ELSE Trim(field)
FromInput(row, body) ==
    /\ row.nirc = Given(body.nirc)
    /\ row.full_name = Given(body.fullName)
    /\ row.position = Given(body.position)
    /\ row.email = Given(body.email)
ValidCreate(q) ==
    /\ IsCreate(q) /\ IncludesJson(q.contentType) /\ q.body.kind = "object"
    /\ q.body.nircType = "string"
    /\ NircPattern(Given(q.body.nirc))
    /\ Given(q.body.fullName) # <<>>
    /\ Given(q.body.email) # <<>> => EmailPattern(Given(q.body.email))

C6_CreateReturnsPersisted ==
    [][ \A h \in Handlers :
          (Moves(h) /\ ValidCreate(req[h]))
          => /\ (pc[h] = "ensure" /\ "CREATE TABLE" \in calls'[h]) => pc'[h] = "insert"
             /\ (pc[h] = "insert" /\ "INSERT" \in calls'[h])
                => \E row \in table' :
                      /\ row \notin table
                      /\ table' = table \cup { row }
                      /\ row.id \notin IdsOf(table) /\ row.id >= 1 /\ row.id = seq'
                      /\ row.created_at = clock
                      /\ FromInput(row, req[h].body)
             /\ (pc[h] = "insert" /\ "INSERT" \notin calls'[h]
                   /\ Given(req[h].body.nirc) \notin NircsOf(table))
                => resp'[h].status = 500 /\ StorageFailure(resp'[h].details)
             /\ pc[h] # "insert" => table' = table
             /\ (pc[h] \in { "selectById", "selectByNirc" } /\ pc'[h] = "done")
                => \/ resp'[h].status = 201
                   \/ resp'[h].status = 500 /\ StorageFailure(resp'[h].details)
             /\ (pc'[h] = "done" /\ resp'[h].status = 201)
                => /\ "INSERT" \in calls'[h]
                   /\ resp'[h].kind = "row"
                   /\ Len(resp'[h].rows) = 1
                   /\ resp'[h].rows[1] \in table'
                   /\ resp'[h].rows[1].id = seq'
                   /\ FromInput(resp'[h].rows[1], req[h].body)
      ]_vars

\* a create whose fields came padded was answered 201 with the trimmed record
C6_Witness ==
    \E h \in Handlers :
        /\ pc[h] = "done" /\ IsCreate(req[h]) /\ resp[h].status = 201
        /\ req[h].body.nirc = S12Padded
        /\ resp[h].rows[1].nirc = S12
        /\ resp[h].rows[1].position = << "x" >>
        /\ resp[h].rows[1].id >= 1

(***************************************************************************)
(* C7: a listing the store answers is a 200 whose rows are the rows of the *)
(* table, each exactly once, in non-increasing created_at order; on an     *)
(* empty table it is the empty sequence.                                   *)
(***************************************************************************)
C7_ListAllNewestFirst ==
    [][ \A h \in Handlers :
          (pc[h] = "list" /\ "SELECT ALL" \in calls'[h])
          => /\ pc'[h] = "done"
             /\ resp'[h].status = 200
             /\ resp'[h].kind = "rows"
             /\ Len(resp'[h].rows) = Cardinality(table)
             /\ Range(resp'[h].rows) = table
             /\ \A i, j \in 1..Len(resp'[h].rows) :
                  i < j => resp'[h].rows[i].created_at >= resp'[h].rows[j].created_at
             /\ table = {} => resp'[h].rows = <<>>
      ]_vars

\* a listing of two rows created at different times, the later one first
C7_Witness ==
    \E h \in Handlers :
        /\ pc[h] = "done" /\ resp[h].kind = "rows" /\ resp[h].status = 200
        /\ Len(resp[h].rows) = 2
        /\ resp[h].rows[1].created_at > resp[h].rows[2].created_at
        /\ resp[h].rows[1].id > resp[h].rows[2].id

(***************************************************************************)
(* The rules of a creation payload, as the specification words them.       *)
(***************************************************************************)
NircRuleViolated(body) == ~NircPattern(Given(body.nirc))
NameRuleViolated(body) == Given(body.fullName) = <<>>
EmailRuleViolated(body) ==
    Given(body.email) # <<>> /\ ~EmailPattern(Given(body.email))
Count(errs, msg) == Cardinality({ i \in 1..Len(errs) : errs[i] = msg })
OneMessagePerViolatedRule(errs, body) ==
    /\ Count(errs, MsgNirc) = IF NircRuleViolated(body) THEN 1 ELSE 0
    /\ Count(errs, MsgFullName) = IF NameRuleViolated(body) THEN 1 ELSE 0
    /\ Count(errs, MsgEmail) = IF EmailRuleViolated(body) THEN 1 ELSE 0
    /\ \A i \in 1..Len(errs) : errs[i] \in { MsgNirc, MsgFullName, MsgEmail }
\* the router has parsed the body of a create request and validates it
Validates(h) ==
    /\ pc[h] = "ensure" /\ "CREATE TABLE" \in calls'[h]
    /\ IsCreate(req[h]) /\ IncludesJson(req[h].contentType)
    /\ req[h].body.kind # "malformed"
\* the router answers 400 with this list of messages
Rejects(h, errs) ==
    /\ pc'[h] = "done"
    /\ resp'[h].status = 400
    /\ resp'[h].kind = "errors"
    /\ resp'[h].errors = errs

(***************************************************************************)
(* C8, as stated: for every payload, null included, validatePayload        *)
(* returns exactly one message per violated rule among the nirc, fullName  *)
(* and email rules and nothing else, and the router answers 400 with that  *)
(* list whenever it is not empty.                                          *)
(***************************************************************************)
C8_EveryPayloadEnumerated ==
    [][ \A h \in Handlers :
          Validates(h)
          => /\ OneMessagePerViolatedRule(validatePayload(req[h].body), req[h].body)
             /\ validatePayload(req[h].body) # <<>>
                => Rejects(h, validatePayload(req[h].body))
      ]_vars

(***************************************************************************)
(* C8, amended: for every payload that is an object, validatePayload       *)
(* returns exactly one message per violated rule among the nirc, fullName  *)
(* and email rules and nothing else; for the payload null it returns the   *)
(* single message "Missing body"; the router answers 400 with the list     *)
(* whenever it is not empty, and calls addEmployee when it is empty.       *)
(***************************************************************************)
C8_ObjectPayloadEnumerated ==
    [][ \A h \in Handlers :
          Validates(h)
          => /\ req[h].body.kind = "object"
                => OneMessagePerViolatedRule(validatePayload(req[h].body), req[h].body)
             /\ req[h].body.kind = "null"
                => validatePayload(req[h].body) = << MsgMissingBody >>
             /\ validatePayload(req[h].body) # <<>>
                => Rejects(h, validatePayload(req[h].body))
             /\ validatePayload(req[h].body) = <<>> => pc'[h] = "insert"
      ]_vars

\* nirc 'a', an empty fullName and no email: exactly the two messages
C8_Witness ==
    \E h \in Handlers :
        /\ pc[h] = "done" /\ IsCreate(req[h])
        /\ req[h].body.kind = "object"
        /\ req[h].body.nirc = << "a" >>
        /\ req[h].body.fullName = <<>>
        /\ req[h].body.email = Undefined
        /\ resp[h].status = 400
        /\ resp[h].errors = << MsgNirc, MsgFullName >>

(***************************************************************************)
(* C9: a create whose payload fails validation never calls addEmployee and *)
(* no statement of it reaches the employees table, which stays as it was;  *)
(* once schema initialization has succeeded it is answered 400 with the    *)
(* validation messages.                                                    *)
(***************************************************************************)
InvalidCreate(q) ==
    /\ IsCreate(q) /\ IncludesJson(q.contentType)
    /\ \/ q.body.kind = "null"
       \/ /\ q.body.kind = "object"
          /\ \/ NircRuleViolated(q.body)
             \/ NameRuleViolated(q.body)
             \/ EmailRuleViolated(q.body)

C9_InvalidCreateNeverStored ==
    [][ \A h \in Handlers :
          InvalidCreate(req'[h])
          => /\ table' = table
             /\ calls'[h] \subseteq { "ensureSchema", "CREATE TABLE", "json" }
             /\ pc'[h] \in { "ensure", "done" }
             /\ (pc'[h] = "done" /\ "CREATE TABLE" \in calls'[h])
                => /\ resp'[h].status = 400
                   /\ resp'[h].kind = "errors"
                   /\ Len(resp'[h].errors) >= 1
      ]_vars

\* an invalid create was refused while the table held rows
C9_Witness ==
    \E h \in Handlers :
        /\ pc[h] = "done" /\ InvalidCreate(req[h])
        /\ req[h].body.kind = "object"
        /\ resp[h].status = 400
        /\ table # {}

(***************************************************************************)
(* C10: a POST or DELETE to /api/employees whose Content-Type does not     *)
(* contain application/json never has its body parsed and calls neither    *)
(* addEmployee nor deleteEmployees; the table stays as it was; once schema *)
(* initialization has succeeded it is answered 415, whatever the body.     *)
(***************************************************************************)
NonJsonWrite(q) == (IsCreate(q) \/ IsDelete(q)) /\ ~IncludesJson(q.contentType)

C10_NonJsonIsUnsupported ==
    [][ \A h \in Handlers :
          NonJsonWrite(req'[h])
          => /\ table' = table
             /\ calls'[h] \subseteq { "ensureSchema", "CREATE TABLE" }
             /\ pc'[h] \in { "ensure", "done" }
             /\ (pc'[h] = "done" /\ "CREATE TABLE" \in calls'[h])
                => /\ resp'[h].status = 415
                   /\ resp'[h].kind = "error"
      ]_vars

\* a text/plain DELETE with a body that is no JSON was answered 415
C10_Witness ==
    \E h \in Handlers :
        /\ pc[h] = "done" /\ IsDelete(req[h])
        /\ req[h].contentType = TextPlain
        /\ req[h].body.kind = "malformed"
        /\ resp[h].status = 415
        /\ table # {}

(***************************************************************************)
(* C11: a DELETE whose ids field is no array, an empty array, or an array  *)
(* with an entry that is no number is refused before the store is queried  *)
(* or modified: no SELECT or DELETE runs for it, the table stays as it     *)
(* was, and once schema initialization has succeeded it is answered 400.   *)
(***************************************************************************)
BadIdList(q) ==
    /\ IsDelete(q) /\ IncludesJson(q.contentType) /\ q.body.kind = "object"
    /\ \/ ~q.body.ids.arr
       \/ Len(q.body.ids.items) = 0
       \/ \E i \in 1..Len(q.body.ids.items) : InvalidId(q.body.ids.items[i])

C11_BadIdListIs400 ==
    [][ \A h \in Handlers :
          BadIdList(req'[h])
          => /\ table' = table
             /\ calls'[h] \cap { "SELECT IN", "DELETE" } = {}
             /\ pc'[h] \in { "ensure", "done" }
             /\ (pc'[h] = "done" /\ "CREATE TABLE" \in calls'[h])
                => resp'[h].status = 400
      ]_vars

(***************************************************************************)
(* C12: every response a handler returns carries the six standard headers  *)
(* with their values: Content-Security-Policy, X-Content-Type-Options:     *)
(* nosniff, Referrer-Policy: no-referrer, Access-Control-Allow-Origin: *,  *)
(* Access-Control-Allow-Methods and Access-Control-Allow-Headers, each     *)
(* exactly once.                                                           *)
(***************************************************************************)
StandardHeaders ==
    { << "Content-Security-Policy", ContentSecurityPolicy >>,
      << "X-Content-Type-Options", "nosniff" >>,
      << "Referrer-Policy", "no-referrer" >>,
      << "Access-Control-Allow-Origin", "*" >>,
      << "Access-Control-Allow-Methods", "GET,HEAD,POST,DELETE,OPTIONS" >>,
      << "Access-Control-Allow-Headers", "Content-Type" >> }

C12_EveryResponseHasHeaders ==
    \A h \in Handlers :
        pc[h] = "done"
        => /\ StandardHeaders \subseteq resp[h].headers
           /\ \A p1, p2 \in resp[h].headers : p1[1] = p2[1] => p1 = p2

\* the answer to a failed schema initialization carries the headers
C12_Witness ==
    \E h \in Handlers :
        /\ pc[h] = "done" /\ resp[h].status = 500
        /\ resp[h].error = "D1 database error: "
        /\ StandardHeaders \subseteq resp[h].headers
        /\ << "Content-Type", "application/json" >> \in resp[h].headers

(***************************************************************************)
(* C13: no fault leaves fetch.  Every request a handler has taken is       *)
(* eventually answered; what it is answered with is a response with one of *)
(* the handler's statuses, never an exception; and a fault outside the     *)
(* inner handlers (a body that is no JSON, the body null of a DELETE, a    *)
(* failed listing) is answered with the generic 500 Internal Server Error. *)
(***************************************************************************)
Statuses == { 200, 201, 204, 400, 404, 409, 415, 500 }
\* the body of a parsed request throws outside the inner handlers
FaultsAtDispatch(q) ==
    /\ IsCreate(q) \/ IsDelete(q)
    /\ IncludesJson(q.contentType)
    /\ \/ q.body.kind = "malformed"
       \/ q.body.kind = "null" /\ IsDelete(q)
GenericServerError(r) ==
    r.status = 500 /\ r.kind = "error" /\ r.error = "Internal Server Error"

C13_NoFaultEscapes ==
    /\ [](\A h \in Handlers :
            pc[h] = "done" => resp[h].kind # "uncaught" /\ resp[h].status \in Statuses)
    /\ [][ \A h \in Handlers :
             /\ (pc[h] = "ensure" /\ "CREATE TABLE" \in calls'[h]
                   /\ FaultsAtDispatch(req[h]))
                => pc'[h] = "done" /\ GenericServerError(resp'[h])
             /\ (pc[h] = "list" /\ Moves(h) /\ "SELECT ALL" \notin calls'[h])
                => pc'[h] = "done" /\ GenericServerError(resp'[h])
       ]_vars
    /\ \A h \in Handlers : (pc[h] \notin { "idle", "done" }) ~> (pc[h] = "done")

\* a DELETE with the body null was answered with the generic server error
C13_Witness ==
    \E h \in Handlers :
        /\ pc[h] = "done" /\ IsDelete(req[h]) /\ req[h].body.kind = "null"
        /\ GenericServerError(resp[h])
        /\ resp[h].details = << "Cannot read properties of null (reading 'ids')" >>

(***************************************************************************)
(* C14, as stated: no request, whatever its method and path, is answered   *)
(* before ensureSchema was called for it.                                  *)
(***************************************************************************)
C14_SchemaFirstAlways ==
    \A h \in Handlers : pc[h] = "done" => "ensureSchema" \in calls[h]

(***************************************************************************)
(* C14, amended: a request whose method is not OPTIONS calls ensureSchema  *)
(* before anything else, is dispatched (its body parsed, a store function  *)
(* called, a statement run) only after ensureSchema succeeded, and is      *)
(* answered with the schema error otherwise; an OPTIONS request is         *)
(* answered 204 at once, without ensureSchema or any other call.           *)
(***************************************************************************)
C14_SchemaFirstButPreflight ==
    \A h \in Handlers :
        /\ (pc[h] # "idle" /\ req[h].method # "OPTIONS") => "ensureSchema" \in calls[h]
        /\ calls[h] \ { "ensureSchema" } # {} => "CREATE TABLE" \in calls[h]
        /\ (pc[h] = "done" /\ req[h].method # "OPTIONS" /\ "CREATE TABLE" \notin calls[h])
           => resp[h].status = 500 /\ resp[h].error = "D1 database error: "
        /\ (pc[h] \notin { "idle", "done" }) => resp[h] = NoResponse
        /\ (pc[h] # "idle" /\ req[h].method = "OPTIONS")
           => pc[h] = "done" /\ resp[h] = Preflight /\ calls[h] = {}

\* a request for a path the handler does not serve was answered 404 after
\* schema initialization
C14_Witness ==
    \E h \in Handlers :
        /\ pc[h] = "done" /\ req[h].path = "/favicon.ico"
        /\ resp[h].status = 404
        /\ { "ensureSchema", "CREATE TABLE" } \subseteq calls[h]

(***************************************************************************)
(* C15: while the store binding is not configured, every request for which *)
(* ensureSchema runs is answered 500 with the error "D1 database error: "  *)
(* followed by the message that names the missing binding; the handler     *)
(* makes no other call for it, so no list, create or delete statement      *)
(* runs, and the table is never created or written.                        *)
(***************************************************************************)
C15_MissingBindingSurfaces ==
    ~binding
    => /\ ~schema /\ table = {}
       /\ \A h \in Handlers :
            /\ pc[h] \in { "idle", "ensure", "done" }
            /\ calls[h] \subseteq { "ensureSchema" }
            /\ (pc[h] = "done" /\ "ensureSchema" \in calls[h])
               => /\ resp[h].status = 500
                  /\ resp[h].kind = "error"
                  /\ resp[h].error = "D1 database error: "
                  /\ resp[h].details = << BindingMsg >>

\* a create with a valid payload was answered with the database error
C15_Witness ==
    \E h \in Handlers :
        /\ ~binding /\ pc[h] = "done" /\ ValidCreate(req[h])
        /\ resp[h].status = 500
        /\ resp[h].details = << BindingMsg >>
        /\ calls[h] = { "ensureSchema" }

(***************************************************************************)
(* C16: the body of a 500 response never carries the cause a failed store  *)
(* statement raised, so that failures which differ only in their cause     *)
(* text are answered with the same body.                                   *)
(***************************************************************************)
C16_CauseNeverReturned ==
    \A h \in Handlers :
        (pc[h] = "done" /\ resp[h].status = 500)
        => \A i \in 1..Len(resp[h].details) : resp[h].details[i] \notin FaultCauses

(***************************************************************************)
(* C17: every id in the table was assigned, so it is at most the largest   *)
(* id ever assigned; that largest id never decreases; a row a step adds    *)
(* has an id larger than every id assigned before, those of deleted rows   *)
(* included; no two rows share an id; and a row stays as it is, id         *)
(* included, until it is removed.                                          *)
(***************************************************************************)
C17_IdsIncreaseNeverReused ==
    [][ /\ IdsOf(table) \subseteq 1..seq
        /\ seq' >= seq
        /\ \A row \in table' \ table :
             /\ row.id > seq
             /\ row.id = seq'
             /\ \A old \in table : row.id > old.id
        /\ \A r1, r2 \in table' : r1.id = r2.id => r1 = r2
        /\ \A row \in table' : row.id \in IdsOf(table) => row \in table
      ]_vars

\* the row with id 1 was deleted, and the create that followed was given id 2
C17_Witness ==
    /\ pc["h1"] = "selectById"
    /\ loc["h1"].maybeId = 2
    /\ IdsOf(table) = { 2 }
    /\ seq = 2

(***************************************************************************)
(* C18: a bulk delete on a list with repeated ids does what the delete on  *)
(* the list without the repetitions does from the same table.  Its         *)
(* existence check goes on to the DELETE exactly when the check on the     *)
(* shorter list does, and otherwise returns the same success flag,         *)
(* deletedCount and status and names the same ids; its DELETE leaves the   *)
(* table the DELETE on the shorter list leaves and is answered as that one *)
(* is, a deletedCount counting the rows removed.                           *)
(***************************************************************************)
\* the list without its repetitions, first occurrences kept
Dedup(s) ==
    LET F[i \in 0..Len(s)] ==
            IF i = 0 THEN <<>>
            ELSE IF s[i] \in Range(F[i - 1]) THEN F[i - 1] ELSE Append(F[i - 1], s[i])
    IN  F[Len(s)]
\* the ids the existence check finds for a list
FoundIds(T, ids) == { id \in IdsOf(T) : id \in Range(ids) }

C19_CreateReturnsOwnRow ==
    [][ \A h \in Handlers :
          (pc[h] \in { "selectById", "selectByNirc" } /\ pc'[h] = "done"
             /\ resp'[h].status = 201)
          => resp'[h].rows[1].id = loc[h].inserted
      ]_vars

(***************************************************************************)
(* C20: a create that is answered, but not with 201, has added no row: its *)
(* INSERT did not run.                                                     *)
(***************************************************************************)
C20_FailedCreateAddsNothing ==
    \A h \in Handlers :
        (pc[h] = "done" /\ IsCreate(req[h]) /\ resp[h].status # 201)
        => "INSERT" \notin calls[h]

====
